---------------------------- MODULE Spec2Model ----------------------------
(***************************************************************************)
(* Gift Economies of Scale (geos.py): the inventory data type, the         *)
(* distribution of the global inventory to the agents, the metrics         *)
(* computed from the distributed state, and the solvers' request lists.    *)
(*                                                                         *)
(* Numbers.  Quantities are Python ints (unbounded).  A ratio is kept as   *)
(* the pair of its numerator and denominator, and round(x, 2) as the       *)
(* integer number of hundredths (Round2).                                  *)
(*                                                                         *)
(* Spec         one run of distribute_inventory on agents as constructed   *)
(* SpecOps      runs of distribute_inventory mixed with add_resource and   *)
(*              update_quantity on the agents' inventories                 *)
(* SpecMetrics  agent populations built with add_resource, then measured   *)
(* SpecSolver   add_requests and remove_requests on one solver             *)
(* SpecCopy     an inventory and the reference make_copy returns           *)
(***************************************************************************)
EXTENDS Integers, Sequences, FiniteSets, TLC

\* ------------------------------------------------------------- bounds
NumAgents == 2
NumResources == 2
MaxStock == 4
MaxOps == 2
MaxRequests == 3
NumRequestIds == 2

AgentIds == 1..NumAgents            \* "agent_0", "agent_1", ... in dict order
ResourceIds == 1..NumResources      \* "resource_0", "resource_1", ...
RequestIds == 1..NumRequestIds

VARIABLES
    inventory,        \* the global Inventory's stock: resource id -> record
    agents,           \* agent id -> that agent's inventory.stock
    pc,               \* where distribute_inventory is
    min_count,        \* argument of distribute_inventory
    max_count,        \* argument of distribute_inventory
    agent_idx,        \* the agent the outer loop (line 342) is at
    resources_count,  \* line 344, kept per agent
    agent_resources,  \* line 345: the sampled ids not yet iterated
    skipped,          \* history: how often line 355 ran, per agent
    original,         \* history: the global stock when distribute_inventory was called
    sample_takes_views, \* whether the interpreter's random.sample accepts a dict view
    ops,              \* how many calls the driver has made on agents' inventories
    metric,           \* the value the last metrics call returned
    requests,         \* Solver.requests
    outcome,          \* how the last Solver call ended
    call,             \* history: the last Solver call and the list it found
    heap,             \* Inventory objects: object id -> stock
    c,                \* the reference make_copy returned (0: none yet)
    via               \* history: the reference the last Inventory call went through

distvars == <<inventory, agents, pc, min_count, max_count, agent_idx,
              resources_count, agent_resources, skipped, original, sample_takes_views>>
solvervars == <<requests, outcome, call>>
copyvars == <<heap, c, via>>
vars == <<distvars, ops, metric, solvervars, copyvars>>

\* ------------------------------------------------------------ helpers
RECURSIVE Sum(_, _)
Sum(f, S) == IF S = {} THEN 0
             ELSE LET x == CHOOSE x \in S : TRUE IN f[x] + Sum(f, S \ {x})

\* round(num / den, 2) in hundredths: Python rounds a half to the even
\* neighbour (the quotients met here with a half are exact in binary)
Round2(num, den) ==
    LET n == IF den < 0 THEN -100 * num ELSE 100 * num
        d == IF den < 0 THEN -den ELSE den
        q == n \div d
        r == n % d
    IN  IF 2 * r < d THEN q
        ELSE IF 2 * r > d THEN q + 1
        ELSE IF q % 2 = 0 THEN q ELSE q + 1

\* random.randint(a, b)
RandInt(a, b) == a..b

\* random.choices(population, k=k): members may repeat
Samples_WithReplacement(population, k) == [1..k -> population]

\* random.sample(population, k): the lists of k distinct members
Samples(population, k) ==
    {s \in [1..k -> population] : \A i, j \in 1..k : i # j => s[i] # s[j]}

\* ---------------------------------------------------------- Inventory
EmptyStock == [r \in {} |-> 0]

StockRecord(resource, quantity, idle_stock) ==
    [resource |-> resource, quantity |-> quantity,
     idle_stock |-> idle_stock, locked |-> 0]

add_resource(stock, resource_id, resource, quantity, idle_stock) ==
    [r \in (DOMAIN stock) \cup {resource_id} |->
        IF r = resource_id THEN StockRecord(resource, quantity, idle_stock)
        ELSE stock[r]]

\* self.stock[resource_id] must exist (KeyError otherwise)
update_inventory_policy(stock, resource_id, new_idle_stock) ==
    [stock EXCEPT ![resource_id].idle_stock = new_idle_stock]

update_quantity(stock, resource_id, new_quantity) ==
    [stock EXCEPT ![resource_id].quantity = new_quantity]

\* the reference make_copy returns, given the reference it is called on
make_copy(self) == self

\* ------------------------------------------------- distribute_inventory
\* line 351
HasSpare(quantity) == quantity > 2

\* a draw that may take all that is left
TransferQuantities_All(quantity) == RandInt(1, quantity)

\* line 352
TransferQuantities(quantity) == RandInt(1, quantity - 1)

\* a draw that may exceed the transfer
IdlePortions_Beyond(qty) == RandInt(0, qty + 1)

\* line 358
IdlePortions(qty) == RandInt(0, qty)

\* a decrease that forgets the quantity
DecreaseGlobal_IdleOnly(rec, qty) ==
    [rec EXCEPT !.idle_stock = @ - qty]

\* lines 363-365
DecreaseGlobal(rec, qty) ==
    [rec EXCEPT !.quantity = @ - qty, !.idle_stock = @ - qty]

AtRest == pc \in {"idle", "done"}

\* line 337: the call, before the first agent
Call(mn, mx) ==
    /\ min_count' = mn
    /\ max_count' = mx
    /\ original' = inventory
    /\ agent_idx' = 1
    /\ resources_count' = [a \in AgentIds |-> 0]
    /\ skipped' = [a \in AgentIds |-> 0]
    /\ agent_resources' = <<>>
    /\ pc' = "agent"
    /\ UNCHANGED <<inventory, agents, sample_takes_views, ops, metric, solvervars, copyvars>>

distribute_inventory_call ==
    /\ pc = "idle"
    /\ \E mn, mx \in 0..NumResources : Call(mn, mx)

\* a later call, on agents that hold what earlier calls gave them
distribute_inventory_again ==
    /\ pc = "done"
    /\ \E mn, mx \in 0..NumResources : Call(mn, mx)

\* lines 342-345, when both draws succeed
distribute_inventory_sample ==
    /\ pc = "agent"
    /\ min_count <= max_count
    /\ sample_takes_views
    /\ \E k \in RandInt(min_count, max_count) :
          /\ k <= Cardinality(DOMAIN inventory)
          /\ \E s \in Samples(DOMAIN inventory, k) :
                /\ resources_count' = [resources_count EXCEPT ![agent_idx] = k]
                /\ agent_resources' = s
    /\ pc' = "resource"
    /\ UNCHANGED <<inventory, agents, min_count, max_count, agent_idx, skipped,
                   original, sample_takes_views, ops, metric, solvervars, copyvars>>

\* lines 344-345: randint raises ValueError on an empty range; sample raises
\* TypeError on inventory.stock.keys() where it takes sequences only (Python
\* 3.11 on), and ValueError on a sample larger than the population
distribute_inventory_raise ==
    /\ pc = "agent"
    /\ \/ min_count > max_count /\ pc' = "ValueError"
       \/ min_count <= max_count /\ ~sample_takes_views /\ pc' = "TypeError"
       \/ /\ sample_takes_views
          /\ \E k \in RandInt(min_count, max_count) : k > Cardinality(DOMAIN inventory)
          /\ pc' = "ValueError"
    /\ UNCHANGED <<inventory, agents, min_count, max_count, agent_idx,
                   resources_count, agent_resources, skipped, original,
                   sample_takes_views, ops, metric, solvervars, copyvars>>

\* lines 347-365, one iteration with quantity > 2
distribute_inventory_transfer ==
    /\ pc = "resource"
    /\ agent_resources # <<>>
    /\ LET resource_id == Head(agent_resources) IN
          /\ HasSpare(inventory[resource_id].quantity)
          /\ \E qty \in TransferQuantities(inventory[resource_id].quantity) :
             \E idle_stock \in IdlePortions(qty) :
                /\ agents' = [agents EXCEPT ![agent_idx] =
                      add_resource(@, resource_id, inventory[resource_id].resource,
                                   qty, idle_stock)]
                /\ inventory' = [inventory EXCEPT ![resource_id] =
                      DecreaseGlobal(@, qty)]
    /\ agent_resources' = Tail(agent_resources)
    /\ UNCHANGED <<pc, min_count, max_count, agent_idx, resources_count,
                   skipped, original, sample_takes_views, ops, metric, solvervars, copyvars>>

\* lines 347-355, one iteration with quantity <= 2
distribute_inventory_skip ==
    /\ pc = "resource"
    /\ agent_resources # <<>>
    /\ ~HasSpare(inventory[Head(agent_resources)].quantity)
    /\ agent_resources' = Tail(agent_resources)
    /\ skipped' = [skipped EXCEPT ![agent_idx] = @ + 1]
    /\ UNCHANGED <<inventory, agents, pc, min_count, max_count, agent_idx,
                   resources_count, original, sample_takes_views, ops, metric, solvervars, copyvars>>

\* line 342: the inner loop is over, on to the next agent
distribute_inventory_next ==
    /\ pc = "resource"
    /\ agent_resources = <<>>
    /\ agent_idx < NumAgents
    /\ agent_idx' = agent_idx + 1
    /\ pc' = "agent"
    /\ UNCHANGED <<inventory, agents, min_count, max_count, resources_count,
                   agent_resources, skipped, original, sample_takes_views, ops, metric, solvervars, copyvars>>

\* line 367
distribute_inventory_return ==
    /\ pc = "resource"
    /\ agent_resources = <<>>
    /\ agent_idx = NumAgents
    /\ pc' = "done"
    /\ UNCHANGED <<inventory, agents, min_count, max_count, agent_idx,
                   resources_count, agent_resources, skipped, original,
                   sample_takes_views, ops, metric, solvervars, copyvars>>

\* ------------------------------------- the driver's calls on an agent
\* what the agents hold in all (the model lets the driver hand out at most
\* MaxStock units, in at most MaxOps calls)
TotalHeld(net) ==
    Sum([a \in AgentIds |->
            Sum([r \in DOMAIN net[a] |-> net[a][r].quantity], DOMAIN net[a])],
        AgentIds)

WithinBounds(net) == TotalHeld(net) <= MaxStock

\* agents[a].inventory.add_resource(r, resource, quantity, idle_stock)
agent_add_resource ==
    /\ AtRest
    /\ ops < MaxOps
    /\ ops' = ops + 1
    /\ \E a \in AgentIds, r \in ResourceIds, quantity \in 0..MaxStock :
       \E idle_stock \in {0, quantity} :
          /\ agents' = [agents EXCEPT ![a] = add_resource(@, r, r, quantity, idle_stock)]
          /\ WithinBounds(agents')
    /\ UNCHANGED <<inventory, pc, min_count, max_count, agent_idx, resources_count,
                   agent_resources, skipped, original, sample_takes_views, metric, solvervars, copyvars>>

\* agents[a].inventory.update_quantity(r, new_quantity), r in stock
agent_update_quantity ==
    /\ AtRest
    /\ ops < MaxOps
    /\ ops' = ops + 1
    /\ \E a \in AgentIds, new_quantity \in 0..MaxStock :
       \E r \in DOMAIN agents[a] :
          /\ agents' = [agents EXCEPT ![a] = update_quantity(@, r, new_quantity)]
          /\ WithinBounds(agents')
    /\ UNCHANGED <<inventory, pc, min_count, max_count, agent_idx, resources_count,
                   agent_resources, skipped, original, sample_takes_views, metric, solvervars, copyvars>>

\* agents[a].inventory.update_quantity(r, new_quantity), r not in stock
agent_update_quantity_raise ==
    /\ AtRest
    /\ ops < MaxOps
    /\ ops' = ops + 1
    /\ \E a \in AgentIds, r \in ResourceIds : r \notin DOMAIN agents[a]
    /\ pc' = "KeyError"
    /\ UNCHANGED <<inventory, agents, min_count, max_count, agent_idx, resources_count,
                   agent_resources, skipped, original, sample_takes_views, metric, solvervars, copyvars>>

\* ------------------------------------------------------------ metrics
\* lines 263-278: the sums, overall and per resource
idle_stock_by_resource(inv, net, resource_id) ==
    Sum([a \in AgentIds |->
            IF resource_id \in DOMAIN net[a] THEN net[a][resource_id].idle_stock ELSE 0],
        AgentIds)
    + (IF resource_id \in DOMAIN inv THEN inv[resource_id].idle_stock ELSE 0)

total_stock_by_resource(inv, net, resource_id) ==
    Sum([a \in AgentIds |->
            IF resource_id \in DOMAIN net[a] THEN net[a][resource_id].quantity ELSE 0],
        AgentIds)
    + (IF resource_id \in DOMAIN inv THEN inv[resource_id].quantity ELSE 0)

idle_stock_overall(inv, net) ==
    Sum([r \in ResourceIds |-> idle_stock_by_resource(inv, net, r)], ResourceIds)

total_stock_overall(inv, net) ==
    Sum([r \in ResourceIds |-> total_stock_by_resource(inv, net, r)], ResourceIds)

\* lines 280-286: the two roundings; either division may raise
calculate_cumulative_idling_capacity(inv, net) ==
    IF total_stock_overall(inv, net) = 0
       \/ \E r \in DOMAIN inv : total_stock_by_resource(inv, net, r) = 0
    THEN [error |-> "ZeroDivisionError"]
    ELSE [error |-> "none",
          overall |-> Round2(idle_stock_overall(inv, net), total_stock_overall(inv, net)),
          by_resource |-> [r \in DOMAIN inv |->
              Round2(idle_stock_by_resource(inv, net, r),
                     total_stock_by_resource(inv, net, r))]]

\* lines 298-300: the quantities of the agents with a record, in dict order
RECURSIVE StockPerAgent(_, _, _)
StockPerAgent(resource_id, net, n) ==
    IF n = 0 THEN <<>>
    ELSE LET rest == StockPerAgent(resource_id, net, n - 1) IN
         IF resource_id \in DOMAIN net[n]
         THEN Append(rest, net[n][resource_id].quantity)
         ELSE rest

RECURSIVE SeqSum(_)
SeqSum(s) == IF s = <<>> THEN 0 ELSE Head(s) + SeqSum(Tail(s))

RECURSIVE SeqMax(_)
SeqMax(s) == IF Len(s) = 1 THEN s[1]
             ELSE LET m == SeqMax(Tail(s)) IN IF Head(s) > m THEN Head(s) ELSE m

RECURSIVE SeqMin(_)
SeqMin(s) == IF Len(s) = 1 THEN s[1]
             ELSE LET m == SeqMin(Tail(s)) IN IF Head(s) < m THEN Head(s) ELSE m

\* 1.0 - max(fractions), the least share forgotten
ConcentrationNumerator_MaxOnly(stock_per_agent) ==
    SeqSum(stock_per_agent) - SeqMax(stock_per_agent)

\* line 312 times total_stock: 1.0 - (max(fractions) - min(fractions))
ConcentrationNumerator(stock_per_agent) ==
    SeqSum(stock_per_agent) - (SeqMax(stock_per_agent) - SeqMin(stock_per_agent))

\* lines 289-314: a bare 0.0, or the index with the least and greatest share
\* (shares and the unrounded index as <<numerator, denominator>>)
calculate_concentration_index(resource_id, net) ==
    LET stock_per_agent == StockPerAgent(resource_id, net, NumAgents)
        total_stock == SeqSum(stock_per_agent)
    IN  IF total_stock = 0
        THEN [kind |-> "float", index |-> 0]
        ELSE [kind |-> "tuple",
              index |-> Round2(ConcentrationNumerator(stock_per_agent), total_stock),
              exact |-> <<ConcentrationNumerator(stock_per_agent), total_stock>>,
              min |-> <<SeqMin(stock_per_agent), total_stock>>,
              max |-> <<SeqMax(stock_per_agent), total_stock>>]

\* lines 321-325
Holders(resource_id, net) ==
    Cardinality({a \in AgentIds : resource_id \in DOMAIN net[a]})

\* lines 316-327
calculate_distribution_index(resource_id, net, num_agents) ==
    IF num_agents = 0 THEN [error |-> "ZeroDivisionError"]
    ELSE [error |-> "none",
          index |-> Round2(Holders(resource_id, net), num_agents),
          exact |-> <<Holders(resource_id, net), num_agents>>]

\* the driver asks for a metric of the state it has built
measure_distribution ==
    /\ AtRest
    /\ \E r \in ResourceIds :
          metric' = [name |-> "distribution", resource_id |-> r,
                     value |-> calculate_distribution_index(r, agents, NumAgents)]
    /\ pc' = "measured"
    /\ UNCHANGED <<inventory, agents, min_count, max_count, agent_idx, resources_count,
                   agent_resources, skipped, original, sample_takes_views, ops, solvervars, copyvars>>

measure_concentration ==
    /\ AtRest
    /\ \E r \in ResourceIds :
          metric' = [name |-> "concentration", resource_id |-> r,
                     value |-> calculate_concentration_index(r, agents)]
    /\ pc' = "measured"
    /\ UNCHANGED <<inventory, agents, min_count, max_count, agent_idx, resources_count,
                   agent_resources, skipped, original, sample_takes_views, ops, solvervars, copyvars>>

measure_idling ==
    /\ pc = "done"
    /\ metric' = [name |-> "idling",
                  value |-> calculate_cumulative_idling_capacity(inventory, agents)]
    /\ pc' = "measured"
    /\ UNCHANGED <<inventory, agents, min_count, max_count, agent_idx, resources_count,
                   agent_resources, skipped, original, sample_takes_views, ops, solvervars, copyvars>>

\* ------------------------------------------------------------- Solver
Contains(list, x) == \E i \in 1..Len(list) : list[i] = x

\* list.remove(x), x in the list: the first occurrence goes
list_remove(list, x) ==
    LET idx == CHOOSE i \in 1..Len(list) :
                  list[i] = x /\ \A j \in 1..(i - 1) : list[j] # x
    IN  [i \in 1..(Len(list) - 1) |-> IF i < idx THEN list[i] ELSE list[i + 1]]

\* lines 150-151
add_requests(self_requests, reqs) == self_requests \o reqs

\* a remove_requests that passes over the ids the list does not hold
RECURSIVE remove_requests_discard(_, _)
remove_requests_discard(self_requests, reqs) ==
    IF reqs = <<>> THEN [requests |-> self_requests, outcome |-> "ok"]
    ELSE IF ~Contains(self_requests, Head(reqs))
         THEN remove_requests_discard(self_requests, Tail(reqs))
         ELSE remove_requests_discard(list_remove(self_requests, Head(reqs)), Tail(reqs))

\* lines 157-158: list.remove raises ValueError on an id the list does not
\* hold; what was removed before it stays removed
RECURSIVE remove_requests(_, _)
remove_requests(self_requests, reqs) ==
    IF reqs = <<>> THEN [requests |-> self_requests, outcome |-> "ok"]
    ELSE IF ~Contains(self_requests, Head(reqs))
         THEN [requests |-> self_requests, outcome |-> "ValueError"]
         ELSE remove_requests(list_remove(self_requests, Head(reqs)), Tail(reqs))

\* the lists of request ids a call can name
RequestLists == UNION {[1..n -> RequestIds] : n \in 0..MaxRequests}

solver_add_requests ==
    /\ \E reqs \in RequestLists :
          /\ Len(requests) + Len(reqs) <= MaxRequests
          /\ requests' = add_requests(requests, reqs)
          /\ call' = [op |-> "add", requests |-> reqs, before |-> requests]
    /\ outcome' = "ok"
    /\ UNCHANGED <<distvars, ops, metric, copyvars>>

solver_remove_requests ==
    /\ \E reqs \in RequestLists :
          /\ requests' = remove_requests(requests, reqs).requests
          /\ outcome' = remove_requests(requests, reqs).outcome
          /\ call' = [op |-> "remove", requests |-> reqs, before |-> requests]
    /\ UNCHANGED <<distvars, ops, metric, copyvars>>

\* ------------------------------------------- Inventory objects, make_copy
\* the Inventory the driver constructed
InvRef == 1

\* the object a name of the driver refers to
Target(name) == IF name = "inv" THEN InvRef ELSE c

Names == {"inv"} \cup (IF c = 0 THEN {} ELSE {"c"})

\* c = inv.make_copy()
inventory_make_copy ==
    /\ c = 0
    /\ c' = make_copy(InvRef)
    /\ UNCHANGED <<heap, via, distvars, ops, metric, solvervars>>

inventory_add_resource ==
    /\ \E name \in Names, r \in ResourceIds, quantity \in 0..MaxStock :
       \E idle_stock \in {0, quantity} :
          /\ heap' = [heap EXCEPT ![Target(name)] =
                         add_resource(@, r, r, quantity, idle_stock)]
          /\ via' = name
    /\ UNCHANGED <<c, distvars, ops, metric, solvervars>>

inventory_update_quantity ==
    /\ \E name \in Names, new_quantity \in 0..MaxStock :
       \E r \in DOMAIN heap[Target(name)] :
          /\ heap' = [heap EXCEPT ![Target(name)] = update_quantity(@, r, new_quantity)]
          /\ via' = name
    /\ UNCHANGED <<c, distvars, ops, metric, solvervars>>

inventory_update_inventory_policy ==
    /\ \E name \in Names, new_idle_stock \in 0..MaxStock :
       \E r \in DOMAIN heap[Target(name)] :
          /\ heap' = [heap EXCEPT ![Target(name)] =
                         update_inventory_policy(@, r, new_idle_stock)]
          /\ via' = name
    /\ UNCHANGED <<c, distvars, ops, metric, solvervars>>

\* ------------------------------------------------------------ Init
\* the global inventories the driver builds with add_resource: any key set,
\* quantities whose total is at most MaxStock, each resource idle as a whole
\* or not at all
GlobalStocks ==
    UNION {
      {st \in [keys -> [resource : ResourceIds, quantity : 0..MaxStock,
                        idle_stock : 0..MaxStock, locked : {0}]] :
          /\ \A r \in keys : st[r].resource = r /\ st[r].idle_stock \in {0, st[r].quantity}
          /\ Sum([r \in keys |-> st[r].quantity], keys) <= MaxStock}
      : keys \in SUBSET ResourceIds}

\* Agent.__init__ (each agent its own empty Inventory), before any call
InitDist ==
    /\ agents = [a \in AgentIds |-> EmptyStock]
    /\ min_count = 0
    /\ max_count = 0
    /\ pc = "idle"
    /\ agent_idx = 1
    /\ resources_count = [a \in AgentIds |-> 0]
    /\ agent_resources = <<>>
    /\ skipped = [a \in AgentIds |-> 0]
    /\ original = inventory
    /\ ops = 0
    /\ metric = [name |-> "none"]

\* Solver.__init__
InitSolver ==
    /\ requests = <<>>
    /\ outcome = "none"
    /\ call = [op |-> "none"]

\* Inventory.__init__: one object, no copy asked for yet
InitCopy ==
    /\ heap = [o \in {1} |-> EmptyStock]
    /\ c = 0
    /\ via = "none"

Init ==
    /\ inventory \in GlobalStocks
    /\ sample_takes_views \in BOOLEAN
    /\ InitDist
    /\ InitSolver
    /\ InitCopy

Next ==
    \/ distribute_inventory_call
    \/ distribute_inventory_sample
    \/ distribute_inventory_raise
    \/ distribute_inventory_transfer
    \/ distribute_inventory_skip
    \/ distribute_inventory_next
    \/ distribute_inventory_return
    \/ measure_idling

Spec == Init /\ [][Next]_vars

\* sequences of distribute_inventory, add_resource and update_quantity
NextOps ==
    \/ distribute_inventory_call
    \/ distribute_inventory_again
    \/ distribute_inventory_sample
    \/ distribute_inventory_raise
    \/ distribute_inventory_transfer
    \/ distribute_inventory_skip
    \/ distribute_inventory_next
    \/ distribute_inventory_return
    \/ agent_add_resource
    \/ agent_update_quantity
    \/ agent_update_quantity_raise
    \/ measure_distribution

\* a pool of every resource, the first stocked with MaxStock idle units
InitOps ==
    /\ inventory = [r \in ResourceIds |->
            IF r = 1 THEN StockRecord(r, MaxStock, MaxStock) ELSE StockRecord(r, 0, 0)]
    /\ sample_takes_views \in BOOLEAN
    /\ InitDist
    /\ InitSolver
    /\ InitCopy

SpecOps == InitOps /\ [][NextOps]_vars

\* nothing distributed: an empty pool, agents as constructed
InitMetrics ==
    /\ inventory = EmptyStock
    /\ sample_takes_views = TRUE
    /\ InitDist
    /\ InitSolver
    /\ InitCopy

\* agent populations built with add_resource
NextMetrics ==
    \/ agent_add_resource
    \/ measure_concentration

SpecMetrics == InitMetrics /\ [][NextMetrics]_vars

\* calls on one solver
NextSolver ==
    \/ solver_add_requests
    \/ solver_remove_requests

SpecSolver == InitMetrics /\ [][NextSolver]_vars

\* an inventory, the reference make_copy returns, and calls through both
NextCopy ==
    \/ inventory_make_copy
    \/ inventory_add_resource
    \/ inventory_update_quantity
    \/ inventory_update_inventory_policy

SpecCopy == InitMetrics /\ [][NextCopy]_vars

\* ===================================================== the claims
RECURSIVE HeldUpTo(_, _)
HeldUpTo(r, n) ==
    IF n = 0 THEN 0
    ELSE (IF r \in DOMAIN agents[n] THEN agents[n][r].quantity ELSE 0) + HeldUpTo(r, n - 1)

\* what the agents hold of resource r in all
HeldByAgents(r) == HeldUpTo(r, NumAgents)

HeldCount(a) == Cardinality(DOMAIN agents[a])

\* C1. Conservation: from agents with empty inventories, after every single
\* transfer of one run of distribute_inventory, for every resource what the
\* agents hold of it plus what is left in the pool is what the pool held
\* when the run began; agents hold nothing the pool never had.
C1_Conservation ==
    /\ \A r \in DOMAIN original :
          HeldByAgents(r) + inventory[r].quantity = original[r].quantity
    /\ \A a \in AgentIds : DOMAIN agents[a] \subseteq DOMAIN original

\* two agents were given the same resource, and the run is over
C1_Witness ==
    /\ pc = "done"
    /\ \E r \in ResourceIds : \A a \in AgentIds : r \in DOMAIN agents[a]

\* C2. The pool never empties: a resource of which the pool held at least 1
\* before the run is held at least once by the pool after every step, and
\* every transfer takes at least 1 and strictly less than what the pool
\* held at that moment.
C2_PoolNeverEmpties ==
    [][\A r \in DOMAIN inventory :
          /\ original[r].quantity >= 1 => inventory'[r].quantity >= 1
          /\ inventory'[r].quantity # inventory[r].quantity =>
                LET qty == inventory[r].quantity - inventory'[r].quantity
                IN  1 <= qty /\ qty < inventory[r].quantity]_vars

\* the pool is down to its last unit of a resource it has handed out
C2_Witness ==
    \E r \in DOMAIN inventory :
        inventory[r].quantity = 1 /\ original[r].quantity >= 3

\* C3. Every record of every agent's inventory has
\* 0 <= idle_stock <= quantity, quantity >= 1 and locked = 0, during and
\* after the run.
C3_AgentRecordBounds ==
    \A a \in AgentIds : \A r \in DOMAIN agents[a] :
        /\ 0 <= agents[a][r].idle_stock
        /\ agents[a][r].idle_stock <= agents[a][r].quantity
        /\ agents[a][r].quantity >= 1
        /\ agents[a][r].locked = 0

\* an agent holds a record part idle, part not
C3_Witness ==
    \E a \in AgentIds : \E r \in DOMAIN agents[a] :
        0 < agents[a][r].idle_stock /\ agents[a][r].idle_stock < agents[a][r].quantity

Finished(a) ==
    \/ pc \in {"done", "measured"}
    \/ pc \in {"agent", "resource"} /\ a < agent_idx
    \/ pc = "resource" /\ a = agent_idx /\ agent_resources = <<>>

CountsInRange ==
    /\ pc # "idle"
    /\ 0 <= min_count
    /\ min_count <= max_count
    /\ max_count <= Cardinality(DOMAIN original)

\* C4. With 0 <= min_count <= max_count <= number of pool resources, no
\* draw raises; every agent holds at most max_count resources, all of them
\* keys of the pool; an agent whose turn is over holds the drawn count k
\* (min_count <= k <= max_count) minus the number of its skipped resources,
\* so fewer than min_count only if one was skipped, and a skipped resource
\* is one the pool holds at most 2 of.
C4_HeldCounts ==
    CountsInRange =>
        /\ pc # "ValueError"
        /\ \A a \in AgentIds :
              /\ HeldCount(a) <= max_count
              /\ DOMAIN agents[a] \subseteq DOMAIN inventory
              /\ Finished(a) =>
                    /\ min_count <= resources_count[a]
                    /\ resources_count[a] <= max_count
                    /\ HeldCount(a) = resources_count[a] - skipped[a]
                    /\ HeldCount(a) < min_count => skipped[a] >= 1
                    /\ skipped[a] >= 1 =>
                          \E r \in DOMAIN inventory \ DOMAIN agents[a] :
                              inventory[r].quantity <= 2

\* the run is over and an agent holds fewer than min_count resources
C4_Witness ==
    /\ CountsInRange
    /\ pc = "done"
    /\ \E a \in AgentIds : HeldCount(a) < min_count /\ HeldCount(a) >= 1

\* C5. If every record of the pool has 0 <= idle_stock <= quantity before
\* the run, every record of the pool has 0 <= idle_stock <= quantity during
\* and after it.
C5_GlobalRecordInvariant ==
    (\A r \in DOMAIN original :
        0 <= original[r].idle_stock /\ original[r].idle_stock <= original[r].quantity)
    => \A r \in DOMAIN inventory :
        0 <= inventory[r].idle_stock /\ inventory[r].idle_stock <= inventory[r].quantity

NonzeroHolders(r) ==
    Cardinality({a \in AgentIds : r \in DOMAIN agents[a] /\ agents[a][r].quantity # 0})

\* C6. After any sequence of distribute_inventory, add_resource and
\* update_quantity, the distribution index of a resource, asked with
\* agent_count = number of agents, is before rounding (number of agents
\* holding a nonzero quantity) / agent_count, lies in [0.0, 1.0], and is
\* 0.0, not an error, when no agent holds the resource.
C6_DistributionIndex ==
    metric.name = "distribution" =>
        /\ metric.value.error = "none"
        /\ metric.value.exact = <<NonzeroHolders(metric.resource_id), NumAgents>>
        /\ 0 <= metric.value.index /\ metric.value.index <= 100
        /\ NonzeroHolders(metric.resource_id) = 0 => metric.value.index = 0

HoldersOf(r) == {a \in AgentIds : r \in DOMAIN agents[a]}

CountIn(list, x) == Cardinality({i \in 1..Len(list) : list[i] = x})

\* the i-th id the call names is absent from the list when its turn comes
AbsentAtTurn(i) ==
    CountIn(SubSeq(call.requests, 1, i), call.requests[i])
        > CountIn(call.before, call.requests[i])

C9_CopyDoesNotAlias ==
    [][(c # 0 /\ c' = c) =>
          /\ via' = "c" => heap'[InvRef] = heap[InvRef]
          /\ via' = "inv" => heap'[c] = heap[c]]_vars

\* C10. If before the run every record of the pool has
\* 0 <= idle_stock <= quantity and quantity >= 1, then after it the idling
\* capacity (idle stock over total stock, agents and pool together) lies in
\* [0, 1] for every resource and overall, and every per-resource total is
\* what the pool held of that resource before the run.
C10_IdlingCapacityNormalized ==
    (/\ metric.name = "idling"
     /\ DOMAIN original # {}
     /\ \A r \in DOMAIN original :
           /\ original[r].quantity >= 1
           /\ 0 <= original[r].idle_stock
           /\ original[r].idle_stock <= original[r].quantity)
    => /\ metric.value.error = "none"
       /\ 0 <= metric.value.overall /\ metric.value.overall <= 100
       /\ \A r \in DOMAIN inventory :
             /\ 0 <= metric.value.by_resource[r]
             /\ metric.value.by_resource[r] <= 100
             /\ 0 <= idle_stock_by_resource(inventory, agents, r)
             /\ idle_stock_by_resource(inventory, agents, r)
                   <= total_stock_by_resource(inventory, agents, r)
             /\ total_stock_by_resource(inventory, agents, r) = original[r].quantity
=============================================================================
